---- MODULE Spec2Model ----
(***************************************************************************)
(* A model of the suggestion extraction and result normalisation helpers   *)
(* of searchbase (src/unnamed/part_001): highlightResults, parseHits,      *)
(* getNormalizedField, getNormalizedWeights, flatten, extractSuggestion    *)
(* and getSuggestions with its closures populateSuggestionsList,           *)
(* parseField and traverseSuggestions.                                     *)
(*                                                                         *)
(* JavaScript values are records [t, v, id]: t is the run-time type, v the *)
(* payload and id the identity of a reference value (array or object), so  *)
(* that === and Array.prototype.includes compare references, not contents. *)
(* A string is the sequence of its characters.  A thrown TypeError is the  *)
(* outcome "threw" of the call.                                            *)
(***************************************************************************)
EXTENDS Integers, Sequences, FiniteSets

VARIABLES
    pc,                      \* position of the call being executed
    fields,                  \* getSuggestions: argument fields
    suggestions,             \* getSuggestions: argument suggestions
    currentValue,            \* getSuggestions: argument currentValue
    showDistinctSuggestions, \* getSuggestions: argument showDistinctSuggestions
    suggestionsList,         \* getSuggestions: closure variable
    labelsList,              \* getSuggestions: closure variable
    skipWordMatch,           \* getSuggestions: closure variable
    heap,                    \* number of arrays allocated by flatten so far
    hits,                    \* parseHits: argument hits
    index,                   \* parseHits: position of hits.map
    data,                    \* parseHits: data of the current item
    results,                 \* parseHits: the records mapped so far
    fieldInput,              \* getNormalizedField/Weights: argument field
    normalizedField,         \* outcome of getNormalizedField(field)
    normalizedWeights        \* outcome of getNormalizedWeights(field)

suggestionVars == <<fields, suggestions, currentValue, showDistinctSuggestions,
                    suggestionsList, labelsList, skipWordMatch, heap>>
hitVars == <<hits, index, data, results>>
fieldVars == <<fieldInput, normalizedField, normalizedWeights>>
vars == <<pc, suggestionVars, hitVars, fieldVars>>

---------------------------------------------------------------------------
(* JavaScript values *)

NoRef == <<0, 0>>
Undefined == [t |-> "undefined", v |-> <<>>, id |-> NoRef]
Null == [t |-> "null", v |-> <<>>, id |-> NoRef]
Str(s) == [t |-> "string", v |-> s, id |-> NoRef]
Bool(b) == [t |-> "boolean", v |-> b, id |-> NoRef]
Num(n) == [t |-> "number", v |-> n, id |-> NoRef]
NaN == [t |-> "NaN", v |-> <<>>, id |-> NoRef]
Infinity == [t |-> "Infinity", v |-> <<>>, id |-> NoRef]
Arr(id, elems) == [t |-> "array", v |-> elems, id |-> id]
Obj(id, props) == [t |-> "object", v |-> props, id |-> id]

\* typeof x === 'object'
TypeofObject(x) == x.t \in {"object", "array", "null"}

IsArray(x) == x.t = "array"

\* ToBoolean(x), the test of `if (x)`
Truthy(x) ==
    CASE x.t = "undefined" -> FALSE
      [] x.t = "null" -> FALSE
      [] x.t = "string" -> Len(x.v) > 0
      [] x.t = "boolean" -> x.v
      [] x.t = "number" -> x.v # 0
      [] x.t = "NaN" -> FALSE
      [] OTHER -> TRUE

\* o[k] for a non-null o and a key k that is no array index
Get(o, k) ==
    IF o.t = "object" /\ k \in DOMAIN o.v THEN o.v[k] ELSE Undefined

\* SameValueZero, the comparison of Array.prototype.includes
SameValueZero(x, y) ==
    /\ x.t = y.t
    /\ IF x.t \in {"object", "array"} THEN x.id = y.id ELSE x.v = y.v

ArrayIncludes(list, x) == \E i \in 1..Len(list) : SameValueZero(list[i], x)

---------------------------------------------------------------------------
(* Strings *)

LowerChar(c) ==
    CASE c = "A" -> "a"
      [] c = "B" -> "b"
      [] c = "O" -> "o"
      [] OTHER -> c

\* String.prototype.toLowerCase
ToLowerCase(s) == [i \in 1..Len(s) |-> LowerChar(s[i])]

\* String.prototype.includes
StringIncludes(s, sub) ==
    \E i \in 0..(Len(s) - Len(sub)) : SubSeq(s, i + 1, i + Len(sub)) = sub

RECURSIVE TrimStart(_)
TrimStart(s) == IF s # <<>> /\ s[1] = " " THEN TrimStart(Tail(s)) ELSE s

RECURSIVE TrimEnd(_)
TrimEnd(s) ==
    IF s # <<>> /\ s[Len(s)] = " " THEN TrimEnd(SubSeq(s, 1, Len(s) - 1)) ELSE s

\* String.prototype.trim
Trim(s) == TrimEnd(TrimStart(s))

\* String.prototype.split(sep) for a one-character separator
RECURSIVE Split(_, _)
Split(s, sep) ==
    IF \A i \in 1..Len(s) : s[i] # sep
    THEN <<s>>
    ELSE LET k == CHOOSE i \in 1..Len(s) :
                      s[i] = sep /\ \A j \in 1..(i - 1) : s[j] # sep
         IN  <<SubSeq(s, 1, k - 1)>> \o Split(SubSeq(s, k + 1, Len(s)), sep)

\* String(val), for the values documents hold here: strings, booleans, null,
\* undefined, arrays and objects
RECURSIVE StringOf(_)
RECURSIVE Join(_)
StringOf(x) ==
    CASE x.t = "string" -> x.v
      [] x.t = "null" -> <<"n", "u", "l", "l">>
      [] x.t = "undefined" -> <<"u", "n", "d", "e", "f", "i", "n", "e", "d">>
      [] x.t = "boolean" -> IF x.v THEN <<"t", "r", "u", "e">>
                            ELSE <<"f", "a", "l", "s", "e">>
      [] x.t = "array" -> Join(x.v)
      [] OTHER -> <<"[", "o", "b", "j", "e", "c", "t", " ",
                    "O", "b", "j", "e", "c", "t", "]">>

\* Array.prototype.join(','): null and undefined elements give ''
Join(elems) ==
    IF elems = <<>> THEN <<>>
    ELSE LET h == elems[1]
             hs == IF h.t \in {"null", "undefined"} THEN <<>> ELSE StringOf(h)
         IN  IF Len(elems) = 1 THEN hs ELSE hs \o <<",">> \o Join(Tail(elems))

---------------------------------------------------------------------------
(* flatten and extractSuggestion *)

\* flatten(arr): the elements of arr, nested arrays replaced by their elements
RECURSIVE flatten(_)
flatten(arr) ==
    IF arr = <<>> THEN <<>>
    ELSE (IF IsArray(arr[1]) THEN flatten(arr[1].v) ELSE <<arr[1]>>)
         \o flatten(Tail(arr))

\* extractSuggestion(val); fresh is the identity of the array flatten allocates
extractSuggestion(val, fresh) ==
    IF TypeofObject(val)
    THEN IF IsArray(val) THEN Arr(fresh, flatten(val.v)) ELSE Null
    ELSE val

---------------------------------------------------------------------------
(* getSuggestions.  A field is the sequence field.split('.') of its         *)
(* segments: fieldNodes[0] is its head and the substring after the first   *)
(* dot splits into its tail.  The closure state is the record              *)
(* st = [list, labels, heap, threw]; e = [currentValue,                    *)
(* showDistinctSuggestions, skipWordMatch] is what the closures read.      *)

\* isWordMatch of populateSuggestionsList
IsWordMatch(val, e) ==
    \/ e.skipWordMatch
    \/ LET terms == Split(Trim(e.currentValue), " ")
           text == ToLowerCase(StringOf(val))
       IN  \E i \in 1..Len(terms) : StringIncludes(text, terms[i])

\* Accepted without the test of labelsList
AcceptedIgnoringLabels(val, source, labels, e) ==
    \/ IsWordMatch(val, e)
    \/ Truthy(Get(source, "_promoted"))

\* Accepted with the test of labelsList applied to promoted documents too
AcceptedUnusedOnly(val, source, labels, e) ==
    /\ IsWordMatch(val, e) \/ Truthy(Get(source, "_promoted"))
    /\ ~ArrayIncludes(labels, val)

\* the condition under which populateSuggestionsList adds val
Accepted(val, source, labels, e) ==
    \/ IsWordMatch(val, e) /\ ~ArrayIncludes(labels, val)
    \/ Truthy(Get(source, "_promoted"))

populateSuggestionsList(val, source, st, e) ==
    IF Accepted(val, source, st.labels, e)
    THEN [st |-> [st EXCEPT
                    !.labels = Append(@, val),
                    !.list = Append(@, [label |-> val, value |-> val,
                                        source |-> source])],
          ret |-> e.showDistinctSuggestions]
    ELSE [st |-> st, ret |-> FALSE]

\* val.some(suggestion => populateSuggestionsList(suggestion, ...))
RECURSIVE PopulateSome(_, _, _, _)
PopulateSome(elems, source, st, e) ==
    IF elems = <<>> THEN [st |-> st, ret |-> FALSE]
    ELSE LET r == populateSuggestionsList(elems[1], source, st, e)
         IN  IF r.ret THEN r ELSE PopulateSome(Tail(elems), source, r.st, e)

\* val.forEach(suggestion => populateSuggestionsList(suggestion, ...))
RECURSIVE PopulateEach(_, _, _, _)
PopulateEach(elems, source, st, e) ==
    IF elems = <<>> THEN st
    ELSE PopulateEach(Tail(elems), source,
                      populateSuggestionsList(elems[1], source, st, e).st, e)

RECURSIVE parseField(_, _, _, _, _)
RECURSIVE ParseFieldEach(_, _, _, _, _)

\* label.forEach(arrayItem => parseField(arrayItem, children, source))
ParseFieldEach(items, children, source, st, e) ==
    IF items = <<>> \/ st.threw THEN st
    ELSE ParseFieldEach(Tail(items), children, source,
                        parseField(items[1], children, source, st, e).st, e)

parseField(parsedSource, field, source, st, e) ==
    IF st.threw \/ ~TypeofObject(parsedSource)
    THEN [st |-> st, ret |-> FALSE]
    ELSE IF parsedSource.t = "null"
    THEN \* parsedSource[fieldNodes[0]] on null: TypeError
         [st |-> [st EXCEPT !.threw = TRUE], ret |-> FALSE]
    ELSE LET label == Get(parsedSource, field[1])
         IN  IF ~Truthy(label) THEN [st |-> st, ret |-> FALSE]
             ELSE IF Len(field) > 1
             THEN LET children == Tail(field)
                  IN  [st |-> IF IsArray(label)
                              THEN ParseFieldEach(label.v, children, source, st, e)
                              ELSE parseField(label, children, source, st, e).st,
                       ret |-> FALSE]
             ELSE LET val == extractSuggestion(label, <<0, st.heap + 1>>)
                      st1 == IF IsArray(label)
                             THEN [st EXCEPT !.heap = @ + 1] ELSE st
                  IN  IF ~Truthy(val) THEN [st |-> st1, ret |-> FALSE]
                      ELSE IF IsArray(val)
                      THEN IF e.showDistinctSuggestions
                           THEN PopulateSome(val.v, source, st1, e)
                           ELSE populateSuggestionsList(
                                    val, source,
                                    PopulateEach(val.v, source, st1, e), e)
                      ELSE populateSuggestionsList(val, source, st1, e)

\* fields.some(field => parseField(item, field))
RECURSIVE FieldsSome(_, _, _, _)
FieldsSome(item, fs, st, e) ==
    IF fs = <<>> \/ st.threw THEN st
    ELSE LET r == parseField(item, fs[1], item, st, e)
         IN  IF r.ret THEN r.st ELSE FieldsSome(item, Tail(fs), r.st, e)

\* fields.forEach(field => { parseField(item, field); })
RECURSIVE FieldsEach(_, _, _, _)
FieldsEach(item, fs, st, e) ==
    IF fs = <<>> \/ st.threw THEN st
    ELSE FieldsEach(item, Tail(fs), parseField(item, fs[1], item, st, e).st, e)

\* traverseSuggestions over the documents items, in order
RECURSIVE traverseSuggestions(_, _, _, _)
traverseSuggestions(items, fs, st, e) ==
    IF items = <<>> \/ st.threw THEN st
    ELSE traverseSuggestions(
             Tail(items), fs,
             IF e.showDistinctSuggestions
             THEN FieldsSome(items[1], fs, st, e)
             ELSE FieldsEach(items[1], fs, st, e),
             e)

Closure == [list |-> suggestionsList, labels |-> labelsList, heap |-> heap,
            threw |-> FALSE]

Env(skip) == [currentValue |-> currentValue,
              showDistinctSuggestions |-> showDistinctSuggestions,
              skipWordMatch |-> skip]

\* the guard of the second pass
Undercount == Len(suggestionsList) < Len(suggestions) /\ ~skipWordMatch

\* the first call of traverseSuggestions
GetSuggestionsFirstPass ==
    /\ pc = "start"
    /\ LET st == traverseSuggestions(suggestions, fields, Closure, Env(skipWordMatch))
       IN  /\ suggestionsList' = st.list
           /\ labelsList' = st.labels
           /\ heap' = st.heap
           /\ pc' = IF st.threw THEN "threw" ELSE "check"
    /\ UNCHANGED <<fields, suggestions, currentValue, showDistinctSuggestions,
                   skipWordMatch, hitVars, fieldVars>>

\* skipWordMatch = true; traverseSuggestions(); return suggestionsList
GetSuggestionsFallback ==
    /\ pc = "check"
    /\ Undercount
    /\ skipWordMatch' = TRUE
    /\ LET st == traverseSuggestions(suggestions, fields, Closure, Env(TRUE))
       IN  /\ suggestionsList' = st.list
           /\ labelsList' = st.labels
           /\ heap' = st.heap
           /\ pc' = IF st.threw THEN "threw" ELSE "done"
    /\ UNCHANGED <<fields, suggestions, currentValue, showDistinctSuggestions,
                   hitVars, fieldVars>>

\* return suggestionsList, the second pass not being needed
GetSuggestionsReturn ==
    /\ pc = "check"
    /\ ~Undercount
    /\ pc' = "done"
    /\ UNCHANGED <<suggestionVars, hitVars, fieldVars>>

---------------------------------------------------------------------------
(* Inputs of getSuggestions *)

MaxDocs == 2
MaxFields == 2

\* the documents a list may hold at position i
DocPool(i) ==
    << Obj(<<i, 0>>, [a |-> Str(<<"A">>), b |-> Str(<<"b">>)]),
       Obj(<<i, 0>>, [a |-> Str(<<"A">>), _promoted |-> Bool(TRUE)]),
       Obj(<<i, 0>>, [c |-> Arr(<<i, 1>>,
                                << Obj(<<i, 2>>, [d |-> Str(<<"A">>)]),
                                   Obj(<<i, 3>>, [d |-> Str(<<"b">>)]) >>),
                      _promoted |-> Bool(TRUE)]),
       Obj(<<i, 0>>, [a |-> Arr(<<i, 1>>,
                                << Str(<<"b">>),
                                   Arr(<<i, 2>>, << Str(<<"A">>) >>) >>),
                      c |-> Obj(<<i, 3>>, [d |-> Str(<<"a", "b">>)])]),
       Null,
       Obj(<<i, 0>>, [a |-> Str(<<"a", "b">>),
                      c |-> Arr(<<i, 1>>,
                                << Obj(<<i, 2>>, [d |-> Str(<<"b">>)]),
                                   Null >>)]) >>

FieldPool == { <<"a">>, <<"b">>, <<"c", "d">> }

FieldLists == UNION { [1..n -> FieldPool] : n \in 0..MaxFields }

Terms ==
    { <<>>, <<"a">>, <<"A">>, <<"b">>, <<" ", "a", " ">>, <<"b", " ", "a">>,
      <<"a", "b">> }

\* no call of parseHits is under way
HitsIdle == hits = Undefined /\ index = 0 /\ data = Undefined /\ results = <<>>

\* no call of getNormalizedField or getNormalizedWeights is under way
FieldsIdle ==
    fieldInput = Undefined /\ normalizedField = Undefined
    /\ normalizedWeights = Undefined

Init ==
    /\ pc = "start"
    /\ \E n \in 0..MaxDocs :
         \E pick \in [1..n -> 1..Len(DocPool(1))] :
           suggestions = [i \in 1..n |-> DocPool(i)[pick[i]]]
    /\ fields \in FieldLists
    /\ currentValue \in Terms
    /\ showDistinctSuggestions \in BOOLEAN
    /\ suggestionsList = <<>>
    /\ labelsList = <<>>
    /\ skipWordMatch = FALSE
    /\ heap = 0
    /\ HitsIdle
    /\ FieldsIdle

Next ==
    \/ GetSuggestionsFirstPass
    \/ GetSuggestionsFallback
    \/ GetSuggestionsReturn

Spec == Init /\ [][Next]_vars

---------------------------------------------------------------------------
(* Properties of getSuggestions *)

Promoted(doc) == Truthy(Get(doc, "_promoted"))

Entries == 1..Len(suggestionsList)

\* C1: in distinct mode the returned list has at most one entry per input
\* document, nested paths and the second pass included.
C1_DistinctCardinality ==
    (pc = "done" /\ showDistinctSuggestions)
        => Len(suggestionsList) <= Len(suggestions)

SameEntry(x, y) ==
    /\ x.label.t = y.label.t
    /\ StringOf(x.label) = StringOf(y.label)
    /\ x.source.id = y.source.id

\* C3: when the second pass runs, the returned list is the list of one
\* traversal with skipWordMatch = true from empty lists.
C3_FallbackReplaces ==
    (pc = "done" /\ skipWordMatch) =>
        LET fresh == traverseSuggestions(
                         suggestions, fields,
                         [list |-> <<>>, labels |-> <<>>, heap |-> 0,
                          threw |-> FALSE],
                         Env(TRUE)).list
        IN  /\ Len(suggestionsList) = Len(fresh)
            /\ \A k \in Entries : SameEntry(suggestionsList[k], fresh[k])

\* the terminal values a field reaches in a node, following every array
RECURSIVE Terminals(_, _)
RECURSIVE TerminalsEach(_, _)
Terminals(node, field) ==
    IF node.t # "object" THEN <<>>
    ELSE LET label == Get(node, field[1])
         IN  IF ~Truthy(label) THEN <<>>
             ELSE IF Len(field) = 1 THEN <<label>>
             ELSE IF IsArray(label) THEN TerminalsEach(label.v, Tail(field))
             ELSE Terminals(label, Tail(field))

TerminalsEach(items, field) ==
    IF items = <<>> THEN <<>>
    ELSE Terminals(items[1], field) \o TerminalsEach(Tail(items), field)

ResolvesToScalar(doc, field) ==
    \E k \in 1..Len(Terminals(doc, field)) :
        ~TypeofObject(Terminals(doc, field)[k])

\* C4: a promoted document with a field that resolves to a scalar has an
\* entry in the returned list.
C4_PromotedSurface ==
    pc = "done" =>
        \A i \in 1..Len(suggestions) :
            (/\ Promoted(suggestions[i])
             /\ \E j \in 1..Len(fields) :
                    ResolvesToScalar(suggestions[i], fields[j]))
                => \E k \in Entries :
                       suggestionsList[k].source.id = suggestions[i].id

\* a promoted document has an entry whose label is no word match and was
\* already used by an earlier document
C4_Witness ==
    /\ pc = "done"
    /\ \E j, k \in Entries :
           /\ j < k
           /\ suggestionsList[j].source.id # suggestionsList[k].source.id
           /\ SameValueZero(suggestionsList[j].label, suggestionsList[k].label)
           /\ Promoted(suggestionsList[k].source)
           /\ ~IsWordMatch(suggestionsList[k].label, Env(FALSE))

\* some term of the trimmed search term, lower-cased, is a substring of the
\* lower-cased text
LowerCasedMatch(text, term) ==
    LET terms == Split(Trim(term), " ")
    IN  \E i \in 1..Len(terms) :
            StringIncludes(ToLowerCase(text), ToLowerCase(terms[i]))

\* C5: after the first pass (skipWordMatch unset) of a non-distinct run, a
\* string found at a one-segment field of a document that is not promoted is
\* a label of the list exactly when it matches the search term up to case.
C5_CaseInsensitiveMatch ==
    (pc = "check" /\ ~showDistinctSuggestions) =>
        \A i \in 1..Len(suggestions), j \in 1..Len(fields) :
            LET doc == suggestions[i]
                val == Get(doc, fields[j][1])
            IN  (/\ Len(fields[j]) = 1
                 /\ doc.t = "object"
                 /\ ~Promoted(doc)
                 /\ val.t = "string"
                 /\ Truthy(val))
                    => /\ LowerCasedMatch(val.v, currentValue)
                           => \E k \in Entries :
                                  SameValueZero(suggestionsList[k].label, val)
                       /\ (\E k \in Entries :
                              /\ SameValueZero(suggestionsList[k].label, val)
                              /\ ~Promoted(suggestionsList[k].source))
                           => LowerCasedMatch(val.v, currentValue)

\* C9: the call never raises an error, whatever the documents hold.
C9_NeverThrows == pc # "threw"

\* C10: every label of the returned list is a scalar.
C10_ScalarLabels ==
    pc = "done" =>
        \A k \in Entries : ~TypeofObject(suggestionsList[k].label)

---------------------------------------------------------------------------
(* highlightResults and parseHits.  The properties of an object are a      *)
(* function from its keys; the order of the keys is not modelled.          *)

EmptyProps == [k \in {} |-> Undefined]

\* props[k]
GetProp(props, k) == IF k \in DOMAIN props THEN props[k] ELSE Undefined

\* { ...x }
Spread(x) == IF x.t = "object" THEN x.v ELSE EmptyProps

\* { ...props, [k]: val }
With(props, k, val) ==
    [x \in DOMAIN props \cup {k} |-> IF x = k THEN val ELSE props[x]]

\* Object.keys(x)
ObjectKeys(x) == IF x.t = "object" THEN DOMAIN x.v ELSE {}

\* x[0] for an x that is neither null nor undefined
First(x) ==
    IF x.t \in {"array", "string"} /\ Len(x.v) > 0
    THEN IF x.t = "array" THEN x.v[1] ELSE Str(<<x.v[1]>>)
    ELSE Undefined

\* Object.keys(data.highlight).forEach(...), keys being the ones still to visit;
\* d = [props, threw] is data, sourceId the identity of the copies of _source
RECURSIVE MergeHighlight(_, _, _)
MergeHighlight(d, keys, sourceId) ==
    IF keys = {} \/ d.threw THEN d
    ELSE LET highlightItem == CHOOSE k \in keys : TRUE
             fragments == Get(d.props["highlight"], highlightItem)
         IN  IF fragments.t \in {"null", "undefined"}
             THEN \* data.highlight[highlightItem][0]: TypeError
                  [d EXCEPT !.threw = TRUE]
             ELSE MergeHighlight(
                      [d EXCEPT !.props =
                          With(@, "_source",
                               Obj(sourceId,
                                   With(Spread(GetProp(d.props, "_source")),
                                        highlightItem, First(fragments))))],
                      keys \ {highlightItem}, sourceId)

\* highlightResults(result): [props, threw], props being the properties of the
\* returned data
highlightResults(result, sourceId) ==
    LET d == [props |-> Spread(result), threw |-> FALSE]
        highlight == GetProp(d.props, "highlight")
    IN  IF Truthy(highlight)
        THEN MergeHighlight(d, ObjectKeys(highlight), sourceId)
        ELSE d

\* the reduce of parseHits: obj[key] = data[key] for the keys still to visit
RECURSIVE CopyKeys(_, _, _)
CopyKeys(obj, from, keys) ==
    IF keys = {} THEN obj
    ELSE LET key == CHOOSE k \in keys : TRUE
         IN  CopyKeys(With(obj, key, from[key]), from, keys \ {key})

\* HitRecord with the source spread over the metadata
HitRecordSourceLast(d) ==
    LET source == Spread(GetProp(d, "_source"))
    IN  CopyKeys(CopyKeys(EmptyProps, d, DOMAIN d \ {"_source"}),
                 source, DOMAIN source)

\* the record parseHits builds from the properties d of data
HitRecord(d) ==
    CopyKeys(Spread(GetProp(d, "_source")), d, DOMAIN d \ {"_source"})

\* hits.map has items left
MoreHits == Truthy(hits) /\ index < Len(hits.v)

\* const data = highlightResults(item)
ParseHitsHighlight ==
    /\ pc = "map"
    /\ MoreHits
    /\ LET d == highlightResults(hits.v[index + 1], <<index + 1, 5>>)
       IN  /\ data' = Obj(<<index + 1, 4>>, d.props)
           /\ pc' = IF d.threw THEN "threw" ELSE "merged"
    /\ UNCHANGED <<hits, index, results, suggestionVars, fieldVars>>

\* return result, the item's record
ParseHitsRecord ==
    /\ pc = "merged"
    /\ results' = Append(results, Obj(<<index + 1, 6>>, HitRecord(data.v)))
    /\ index' = index + 1
    /\ pc' = "map"
    /\ UNCHANGED <<hits, data, suggestionVars, fieldVars>>

\* return results
ParseHitsReturn ==
    /\ pc = "map"
    /\ ~MoreHits
    /\ pc' = "done"
    /\ UNCHANGED <<hitVars, suggestionVars, fieldVars>>

MaxHits == 2

\* the hits a list may hold at position i
HitPool(i) ==
    << Obj(<<i, 0>>,
           [_id |-> Str(<<"1">>),
            _source |-> Obj(<<i, 1>>, [title |-> Str(<<"x">>),
                                       body |-> Str(<<"y">>)]),
            highlight |-> Obj(<<i, 2>>,
                              [title |-> Arr(<<i, 3>>, <<Str(<<"e">>),
                                                         Str(<<"f">>)>>),
                               tags |-> Arr(<<i, 7>>, <<Str(<<"g">>)>>)])]),
       Obj(<<i, 0>>,
           [_id |-> Str(<<"2">>),
            _source |-> Obj(<<i, 1>>, [title |-> Str(<<"x">>),
                                       _id |-> Str(<<"s">>)])]),
       Obj(<<i, 0>>,
           [_id |-> Str(<<"3">>),
            _source |-> Obj(<<i, 1>>, [title |-> Str(<<"x">>)]),
            highlight |-> Obj(<<i, 2>>, [title |-> Arr(<<i, 3>>, <<>>)])]),
       Obj(<<i, 0>>,
           [_id |-> Str(<<"4">>),
            highlight |-> Obj(<<i, 2>>,
                              [body |-> Arr(<<i, 3>>, <<Str(<<"f">>)>>)])]),
       Obj(<<i, 0>>,
           [_source |-> Obj(<<i, 1>>, [title |-> Str(<<"x">>)]),
            highlight |-> Obj(<<i, 2>>, [title |-> Null])]),
       Null >>

SuggestionsIdle ==
    /\ fields = <<>>
    /\ suggestions = <<>>
    /\ currentValue = <<>>
    /\ showDistinctSuggestions = TRUE
    /\ suggestionsList = <<>>
    /\ labelsList = <<>>
    /\ skipWordMatch = FALSE
    /\ heap = 0

InitHits ==
    /\ pc = "map"
    /\ \/ hits = Undefined
       \/ \E n \in 0..MaxHits :
            \E pick \in [1..n -> 1..Len(HitPool(1))] :
              hits = Arr(<<0, 1>>, [i \in 1..n |-> HitPool(i)[pick[i]]])
    /\ index = 0
    /\ data = Undefined
    /\ results = <<>>
    /\ SuggestionsIdle
    /\ FieldsIdle

NextHits ==
    \/ ParseHitsHighlight
    \/ ParseHitsRecord
    \/ ParseHitsReturn

SpecHits == InitHits /\ [][NextHits]_vars

---------------------------------------------------------------------------
(* Properties of parseHits and highlightResults *)

\* the keys of the highlight-merged _source of a hit
MergedSourceKeys(hit) ==
    ObjectKeys(Get(hit, "_source"))
        \cup (IF Truthy(Get(hit, "highlight"))
              THEN ObjectKeys(Get(hit, "highlight")) ELSE {})

\* C6: parseHits returns one record per hit, in order; its keys are the
\* hit's keys other than _source and those of the merged _source, and a key
\* of both holds the hit's own value.
C6_HitFlattening ==
    (pc = "done" /\ Truthy(hits)) =>
        /\ Len(results) = Len(hits.v)
        /\ \A i \in 1..Len(results) :
               LET hit == hits.v[i]
                   meta == ObjectKeys(hit) \ {"_source"}
               IN  /\ DOMAIN results[i].v = meta \cup MergedSourceKeys(hit)
                   /\ \A k \in meta :
                          SameValueZero(results[i].v[k], hit.v[k])

\* a returned record holds the hit's value of a key its _source has too
C6_Witness ==
    /\ pc = "done"
    /\ Truthy(hits)
    /\ \E i \in 1..Len(results) :
           \E k \in (ObjectKeys(hits.v[i]) \ {"_source"})
                        \cap MergedSourceKeys(hits.v[i]) :
               /\ ~SameValueZero(hits.v[i].v[k], hits.v[i].v["_source"].v[k])
               /\ SameValueZero(results[i].v[k], hits.v[i].v[k])

\* the fragments the highlight map of a hit has for key k
Fragments(hit, k) ==
    IF Truthy(Get(hit, "highlight")) /\ Get(Get(hit, "highlight"), k).t = "array"
    THEN Get(Get(hit, "highlight"), k).v
    ELSE <<>>

\* C7: the data of a hit has, for each source field, the first fragment of
\* the field when the highlight map has one and the hit's own value when
\* it has none, and for each highlighted field its first fragment.
C7_HighlightMerge ==
    pc = "merged" =>
        LET hit == hits.v[index + 1]
            merged == Spread(Get(data, "_source"))
        IN  \A k \in MergedSourceKeys(hit) :
                /\ k \in DOMAIN merged
                /\ IF Fragments(hit, k) # <<>>
                   THEN SameValueZero(merged[k], Fragments(hit, k)[1])
                   ELSE SameValueZero(merged[k], Get(Get(hit, "_source"), k))

---------------------------------------------------------------------------
(* getNormalizedField and getNormalizedWeights *)

Threw == [t |-> "threw", v |-> <<>>, id |-> NoRef]
Pending == [t |-> "pending", v |-> <<>>, id |-> NoRef]

Digits == {"0", "1", "2", "3", "4", "5", "6", "7", "8", "9"}

\* Number.isNaN(parseFloat(n)); a string parses when, leading blanks apart,
\* it starts with a digit
ParseFloatIsNaN(n) ==
    CASE n.t \in {"number", "Infinity"} -> FALSE
      [] n.t = "string" -> LET text == TrimStart(n.v)
                           IN  text = <<>> \/ text[1] \notin Digits
      [] OTHER -> TRUE

\* Number.isFinite(n)
NumberIsFinite(n) == n.t = "number"

\* isNumber without the test of Number.isFinite
isNumberParsedOnly(n) == ~ParseFloatIsNaN(n)

isNumber(n) == ~ParseFloatIsNaN(n) /\ NumberIsFinite(n)

\* the forEach of getNormalizedField over the entries left; acc is the array
\* fields so far, or Threw
RECURSIVE PushFields(_, _)
PushFields(entries, acc) ==
    IF entries = <<>> \/ acc.t = "threw" THEN acc
    ELSE LET dataField == entries[1]
         IN  PushFields(
                 Tail(entries),
                 IF dataField.t = "string"
                 THEN [acc EXCEPT !.v = Append(@, dataField)]
                 ELSE IF dataField.t \in {"null", "undefined"}
                 THEN Threw \* dataField.field: TypeError
                 ELSE IF Truthy(Get(dataField, "field"))
                 THEN [acc EXCEPT !.v = Append(@, Get(dataField, "field"))]
                 ELSE acc)

getNormalizedField(field) ==
    IF Truthy(field)
    THEN IF ~IsArray(field) THEN Arr(<<0, 2>>, <<field>>)
         ELSE IF Len(field.v) # 0 THEN PushFields(field.v, Arr(<<0, 2>>, <<>>))
         ELSE Undefined
    ELSE Undefined

\* the forEach of getNormalizedWeights over the entries left
RECURSIVE PushWeights(_, _)
PushWeights(entries, acc) ==
    IF entries = <<>> \/ acc.t = "threw" THEN acc
    ELSE LET dataField == entries[1]
         IN  PushWeights(
                 Tail(entries),
                 IF dataField.t \in {"null", "undefined"}
                 THEN Threw \* dataField.weight: TypeError
                 ELSE IF isNumber(Get(dataField, "weight"))
                 THEN [acc EXCEPT !.v = Append(@, Get(dataField, "weight"))]
                 ELSE [acc EXCEPT !.v = Append(@, Num(1))])

getNormalizedWeights(field) ==
    IF Truthy(field) /\ IsArray(field) /\ Len(field.v) # 0
    THEN PushWeights(field.v, Arr(<<0, 3>>, <<>>))
    ELSE Undefined

CallGetNormalizedField ==
    /\ pc = "normalize"
    /\ normalizedField = Pending
    /\ normalizedField' = getNormalizedField(fieldInput)
    /\ UNCHANGED <<pc, fieldInput, normalizedWeights, suggestionVars, hitVars>>

CallGetNormalizedWeights ==
    /\ pc = "normalize"
    /\ normalizedWeights = Pending
    /\ normalizedWeights' = getNormalizedWeights(fieldInput)
    /\ UNCHANGED <<pc, fieldInput, normalizedField, suggestionVars, hitVars>>

MaxEntries == 3

Title == Str(<<"t", "i", "t", "l", "e">>)
Body == Str(<<"b", "o", "d", "y">>)
Tags == Str(<<"t", "a", "g", "s">>)

\* the entries an array field may hold at position i
EntryPool(i) ==
    << Obj(<<i, 0>>, [field |-> Title, weight |-> Num(3)]),
       Body,
       Obj(<<i, 0>>, [field |-> Tags]),
       Obj(<<i, 0>>, [weight |-> Num(2)]),
       Obj(<<i, 0>>, [field |-> Body, weight |-> Str(<<"3">>)]),
       Obj(<<i, 0>>, [field |-> Str(<<>>), weight |-> Infinity]),
       Obj(<<i, 0>>, [field |-> Tags, weight |-> NaN]),
       Null >>

InitFields ==
    /\ pc = "normalize"
    /\ \/ fieldInput \in {Undefined, Title, Str(<<>>)}
       \/ \E n \in 0..MaxEntries :
            \E pick \in [1..n -> 1..Len(EntryPool(1))] :
              fieldInput = Arr(<<0, 1>>, [i \in 1..n |-> EntryPool(i)[pick[i]]])
    /\ normalizedField = Pending
    /\ normalizedWeights = Pending
    /\ SuggestionsIdle
    /\ HitsIdle

NextFields ==
    \/ CallGetNormalizedField
    \/ CallGetNormalizedWeights

SpecFields == InitFields /\ [][NextFields]_vars

---------------------------------------------------------------------------
(* Properties of getNormalizedField and getNormalizedWeights *)

\* field is a non-empty array of strings and objects
IsFieldSpecArray(field) ==
    /\ IsArray(field)
    /\ Len(field.v) > 0
    /\ \A i \in 1..Len(field.v) : field.v[i].t \in {"string", "object"}

HasField(entry) == entry.t = "string" \/ Truthy(Get(entry, "field"))

FieldName(entry) == IF entry.t = "string" THEN entry ELSE Get(entry, "field")

\* C8: of a non-empty array of strings and objects, the weights are, entry by
\* entry, the weight when it is a finite number and 1 otherwise, and the
\* fields are, in order, the strings and the field of the objects having one.
C8_FieldWeightNormalization ==
    (/\ IsFieldSpecArray(fieldInput)
     /\ normalizedField # Pending
     /\ normalizedWeights # Pending)
        => LET entries == fieldInput.v
               named == SelectSeq(entries, HasField)
           IN  /\ IsArray(normalizedWeights)
               /\ Len(normalizedWeights.v) = Len(entries)
               /\ \A i \in 1..Len(entries) :
                      SameValueZero(
                          normalizedWeights.v[i],
                          IF Get(entries[i], "weight").t = "number"
                          THEN Get(entries[i], "weight") ELSE Num(1))
               /\ IsArray(normalizedField)
               /\ Len(normalizedField.v) = Len(named)
               /\ Len(normalizedField.v) <= Len(entries)
               /\ \A i \in 1..Len(named) :
                      SameValueZero(normalizedField.v[i], FieldName(named[i]))
               /\ (\A i \in 1..Len(entries) : HasField(entries[i]))
                      => Len(normalizedField.v) = Len(entries)

\* [{field: 'title', weight: 3}, 'body', {field: 'tags'}] has given the fields
\* ['title', 'body', 'tags'] and the weights [3, 1, 1]
C8_Witness ==
    /\ IsArray(fieldInput)
    /\ Len(fieldInput.v) = 3
    /\ fieldInput.v[1].t = "object"
    /\ fieldInput.v[2].t = "string"
    /\ IsArray(normalizedField)
    /\ normalizedField.v = <<Title, Body, Tags>>
    /\ IsArray(normalizedWeights)
    /\ normalizedWeights.v = <<Num(3), Num(1), Num(1)>>

====
